---------------------------- MODULE Spec2Model ----------------------------
(***************************************************************************)
(* FastCDC content-defined chunking (clast-rs, src/src/fastcdc).           *)
(*                                                                         *)
(* The model holds one chunker (sizes and masks), one input byte sequence  *)
(* S, and two independent chunking sessions over S: the blocking iterator  *)
(* FastCDCIter (core.rs) and the async stream FastCDCStream (stream.rs).   *)
(* One action is one call of FastCDCIter::next or of                       *)
(* FastCDCStream::poll_next; what the byte source answers to the reads of  *)
(* that call (how many bytes, Pending, an error) is the action's input.    *)
(*                                                                         *)
(* Scale.  The code works on u64 hashes, a 256-entry gear table and sizes  *)
(* of at least 64 bytes.  The model keeps the algorithms and shrinks the   *)
(* data: hashes are HashBits wide (all hash arithmetic wraps modulo        *)
(* 2^HashBits), bytes are drawn from Byte, and the size triples of         *)
(* Configs keep what the code relies on: min_size < avg_size < max_size    *)
(* and min_size / 2 >= 1.                                                  *)
(***************************************************************************)
EXTENDS Integers, Sequences, FiniteSets, TLC

(***************************************************************************)
(* Bounds of the model.                                                    *)
(***************************************************************************)
HashBits == 6       \* width of the rolling hash (u64 in the code)
MaxInput == 8       \* longest input S
MaxRead == 2        \* most bytes one read of the source hands over
MaxStop == 2        \* a call's read that ends Pending or fails: 1..MaxStop
MaxErrors == 1      \* failed reads per session
MaxOver == 1        \* spare capacity BytesMut::reserve may add beyond the request

Byte == {0, 1}
Errors == {"e1", "e2"}

(***************************************************************************)
(* Once(e, LAMBDA x : F(x)) is LET x == e IN F(x) with e evaluated once.   *)
(* TLC evaluates a LET definition and an operator argument each time they  *)
(* are used when it evaluates ENABLED (the fairness conditions of          *)
(* SpecLive); a value bound by a quantifier is computed once.              *)
(***************************************************************************)
Once(e, F(_)) == CHOOSE y \in { F(x) : x \in {e} } : TRUE

Min(a, b) == IF a <= b THEN a ELSE b
Max(a, b) == IF a >= b THEN a ELSE b

(***************************************************************************)
(* u64 arithmetic, HashBits wide.                                          *)
(***************************************************************************)
Modulus == 2 ^ HashBits

WrappingAdd(a, b) == (a + b) % Modulus

Shl(a, n) == (a * (2 ^ n)) % Modulus

RECURSIVE BitAnd(_, _)
BitAnd(a, b) ==
    IF a = 0 \/ b = 0 THEN 0
    ELSE (a % 2) * (b % 2) + 2 * BitAnd(a \div 2, b \div 2)

(***************************************************************************)
(* The generated tables (build.rs).  GearTable is a sample gear table for  *)
(* the bytes of Byte; GEAR_LS stores every entry shifted left by one.      *)
(* MASK_TABLE[k] has k bits set; index 0 is a padding zero.                *)
(***************************************************************************)
GearTable == <<44, 41, 19, 54>>

GEAR(b) == GearTable[b + 1] % Modulus

\* A GEAR_LS table that stores the gear values unshifted.
GEAR_LS_Unshifted(b) == GearTable[b + 1] % Modulus

GEAR_LS(b) == Shl(GearTable[b + 1], 1)

MaskTable == <<0, 4, 20, 22, 30>>

MASK_TABLE(i) == MaskTable[i + 1]

(***************************************************************************)
(* mask.rs                                                                 *)
(***************************************************************************)
\* An offset table whose last level is one too large.
NormalOffset_Level4(normal) ==
    CASE normal = "None" -> 0
      [] normal = "Level1" -> 1
      [] normal = "Level2" -> 2
      [] normal = "Level3" -> 4

NormalOffset(normal) ==
    CASE normal = "None" -> 0
      [] normal = "Level1" -> 1
      [] normal = "Level2" -> 2
      [] normal = "Level3" -> 3

RECURSIVE ILog2(_)
ILog2(n) == IF n <= 1 THEN 0 ELSE 1 + ILog2(n \div 2)

MasksNew(avg_size, normal) ==
    LET bits == ILog2(avg_size)
        offset == NormalOffset(normal)
        mask_s == MASK_TABLE(bits + offset)
        mask_l == MASK_TABLE(bits - offset)
    IN  [mask_s |-> mask_s, mask_s_ls |-> Shl(mask_s, 1),
         mask_l |-> mask_l, mask_l_ls |-> Shl(mask_l, 1)]

(***************************************************************************)
(* The FastCDC struct (core.rs): the three sizes and the masks.            *)
(***************************************************************************)
FastCDC(min_size, avg_size, max_size, normal) ==
    [min_size |-> min_size, avg_size |-> avg_size, max_size |-> max_size,
     masks |-> MasksNew(avg_size, normal)]

Configs ==
    { FastCDC(2, 4, 6, "Level1"), FastCDC(3, 5, 7, "Level1") }

(***************************************************************************)
(* cut.rs: one `for pair_idx in start_idx..stop_idx` loop of               *)
(* find_cutpoint_inner.  The result says whether a mask test fired, the    *)
(* hash, the cut, how many pairs were hashed and whether the bounds guard  *)
(* `byte_idx + 1 >= source.len()` broke the loop.  Source index i of the   *)
(* code is source[i + 1] here.                                             *)
(***************************************************************************)
\* The two hash updates of one loop iteration (lines 64 and 70).
UnrolledStep(fp_hash, b0, b1) ==
    Once(WrappingAdd(Shl(fp_hash, 2), GEAR_LS(b0)), LAMBDA h1 :
        [h1 |-> h1, h2 |-> WrappingAdd(h1, GEAR(b1))])

RECURSIVE ScanPairs(_, _, _, _, _, _, _)
ScanPairs(source, pair_idx, stop_idx, fp_hash, mask, mask_ls, iters) ==
    IF pair_idx >= stop_idx
    THEN [found |-> FALSE, hash |-> fp_hash, cut |-> 0, iters |-> iters, broke |-> FALSE]
    ELSE LET byte_idx == pair_idx * 2 IN
         IF byte_idx + 1 >= Len(source)
         THEN [found |-> FALSE, hash |-> fp_hash, cut |-> 0, iters |-> iters, broke |-> TRUE]
         ELSE Once(UnrolledStep(fp_hash, source[byte_idx + 1], source[byte_idx + 2]),
                   LAMBDA step :
              IF BitAnd(step.h1, mask_ls) = 0
              THEN [found |-> TRUE, hash |-> step.h1, cut |-> byte_idx,
                    iters |-> iters + 1, broke |-> FALSE]
              ELSE IF BitAnd(step.h2, mask) = 0
              THEN [found |-> TRUE, hash |-> step.h2, cut |-> byte_idx + 1,
                    iters |-> iters + 1, broke |-> FALSE]
              ELSE ScanPairs(source, pair_idx + 1, stop_idx, step.h2, mask, mask_ls,
                             iters + 1))

\* A start that resumes from offset and prev_hash whatever the offset is.
ScanStart_AlwaysResumes(offset, prev_hash, min_size) ==
    LET aligned_offset == (offset \div 2) * 2
    IN  [idx |-> aligned_offset \div 2, hash |-> prev_hash]

\* A scan that ignores the checkpoint and starts over.
ScanStart_Naive(offset, prev_hash, min_size) ==
    [idx |-> min_size \div 2, hash |-> 0]

\* A resumption that keeps the offset and forgets the carried hash.
ScanStart_RestartsHash(offset, prev_hash, min_size) ==
    IF offset < min_size
    THEN [idx |-> min_size \div 2, hash |-> 0]
    ELSE [idx |-> ((offset \div 2) * 2) \div 2, hash |-> 0]

\* A scan that starts hashing at the first byte, without the sub-minimum skip.
ScanStart_FromZero(offset, prev_hash, min_size) ==
    IF offset < min_size
    THEN [idx |-> 0, hash |-> 0]
    ELSE LET aligned_offset == (offset \div 2) * 2
         IN  [idx |-> aligned_offset \div 2, hash |-> prev_hash]

\* The pair index and the hash a scan starts from (cut.rs, lines 46-51).
ScanStart(offset, prev_hash, min_size) ==
    IF offset < min_size
    THEN [idx |-> min_size \div 2, hash |-> 0]
    ELSE LET aligned_offset == (offset \div 2) * 2
         IN  [idx |-> aligned_offset \div 2, hash |-> prev_hash]

\* A scan whose last pair index is rounded up: the trailing byte of an odd
\* window starts a pair.
FindCutpointInner_EndRoundsUp(source, offset, prev_hash, min_size, avg_size, max_size, mask_s, mask_s_ls, mask_l, mask_l_ls) ==
    LET scan_len == Min(Len(source), max_size)
        center_idx == Min(avg_size, scan_len) \div 2
        end_idx == (scan_len + 1) \div 2
    IN
    IF scan_len <= min_size
    THEN [hash |-> prev_hash, cut |-> scan_len, iters |-> 0, broke |-> FALSE,
          region |-> "none", lo |-> scan_len]
    ELSE Once(ScanStart(offset, prev_hash, min_size), LAMBDA st :
         Once(IF st.idx < center_idx
              THEN ScanPairs(source, st.idx, center_idx, st.hash, mask_s, mask_s_ls, 0)
              ELSE [found |-> FALSE, hash |-> st.hash, cut |-> 0,
                    iters |-> 0, broke |-> FALSE],
              LAMBDA small :
         IF small.found
         THEN [hash |-> small.hash, cut |-> small.cut,
               iters |-> small.iters, broke |-> FALSE,
               region |-> "strict", lo |-> 2 * st.idx]
         ELSE LET start_idx == Max(IF st.idx < center_idx THEN center_idx ELSE st.idx,
                                   center_idx)
              IN  Once(ScanPairs(source, start_idx, end_idx, small.hash,
                                 mask_l, mask_l_ls, small.iters),
                       LAMBDA large :
                  [hash |-> large.hash,
                   cut |-> IF large.found THEN large.cut ELSE scan_len,
                   iters |-> large.iters,
                   broke |-> small.broke \/ large.broke,
                   region |-> IF large.found THEN "loose" ELSE "none",
                   lo |-> IF large.iters > 0 THEN 2 * st.idx ELSE scan_len])))

\* Besides (fp_hash, cut) the result says which loop's mask test decided the
\* cut (region: "strict" for the loop of lines 57-75, "loose" for the loop of
\* lines 81-99, "none" when no test fired) and the lowest byte position the
\* call tested (lo; scan_len when it tested none).
FindCutpointInner(source, offset, prev_hash, min_size, avg_size, max_size, mask_s, mask_s_ls, mask_l, mask_l_ls) ==
    LET scan_len == Min(Len(source), max_size)
        center_idx == Min(avg_size, scan_len) \div 2
        end_idx == scan_len \div 2
    IN
    IF scan_len <= min_size
    THEN [hash |-> prev_hash, cut |-> scan_len, iters |-> 0, broke |-> FALSE,
          region |-> "none", lo |-> scan_len]
    ELSE Once(ScanStart(offset, prev_hash, min_size), LAMBDA st :
         Once(IF st.idx < center_idx
              THEN ScanPairs(source, st.idx, center_idx, st.hash, mask_s, mask_s_ls, 0)
              ELSE [found |-> FALSE, hash |-> st.hash, cut |-> 0,
                    iters |-> 0, broke |-> FALSE],
              LAMBDA small :
         IF small.found
         THEN [hash |-> small.hash, cut |-> small.cut,
               iters |-> small.iters, broke |-> FALSE,
               region |-> "strict", lo |-> 2 * st.idx]
         ELSE LET start_idx == Max(IF st.idx < center_idx THEN center_idx ELSE st.idx,
                                   center_idx)
              IN  Once(ScanPairs(source, start_idx, end_idx, small.hash,
                                 mask_l, mask_l_ls, small.iters),
                       LAMBDA large :
                  [hash |-> large.hash,
                   cut |-> IF large.found THEN large.cut ELSE scan_len,
                   iters |-> large.iters,
                   broke |-> small.broke \/ large.broke,
                   region |-> IF large.found THEN "loose" ELSE "none",
                   lo |-> IF large.iters > 0 THEN 2 * st.idx ELSE scan_len])))

(***************************************************************************)
(* find_cutpoint, the non-incremental entry point that core.rs imports     *)
(* from cut.rs.  Its body is not among the sources; it is written here     *)
(* from the algorithm of spec.md (section 4.3): no hashing and hash 0 when *)
(* scan_len <= min_size, then the strict masks over the pairs              *)
(* [min_size/2, center) and the loose masks over [center, scan_len/2).     *)
(***************************************************************************)
RECURSIVE GearPairs(_, _, _, _, _, _)
GearPairs(source, i, stop, h, mask, mask_ls) ==
    IF i >= stop
    THEN [found |-> FALSE, hash |-> h, cut |-> 0]
    ELSE LET b == 2 * i IN
         Once(WrappingAdd(Shl(h, 2), GEAR_LS(source[b + 1])), LAMBDA h1 :
         Once(WrappingAdd(h1, GEAR(source[b + 2])), LAMBDA h2 :
         IF BitAnd(h1, mask_ls) = 0 THEN [found |-> TRUE, hash |-> h1, cut |-> b]
         ELSE IF BitAnd(h2, mask) = 0 THEN [found |-> TRUE, hash |-> h2, cut |-> b + 1]
         ELSE GearPairs(source, i + 1, stop, h2, mask, mask_ls)))

FindCutpoint(source, min_size, avg_size, max_size, mask_s, mask_s_ls, mask_l, mask_l_ls) ==
    LET scan_len == Min(Len(source), max_size) IN
    IF scan_len <= min_size
    THEN [hash |-> 0, cut |-> scan_len]
    ELSE LET start == min_size \div 2
             center == Min(avg_size, scan_len) \div 2
             end == scan_len \div 2
         IN  Once(GearPairs(source, start, center, 0, mask_s, mask_s_ls), LAMBDA small :
             IF small.found
             THEN [hash |-> small.hash, cut |-> small.cut]
             ELSE Once(GearPairs(source, center, end, small.hash, mask_l, mask_l_ls),
                       LAMBDA large :
                  [hash |-> large.hash,
                   cut |-> IF large.found THEN large.cut ELSE scan_len]))

(***************************************************************************)
(* State.  S is the input the byte sources deliver and chunker the shared, *)
(* immutable FastCDC value.  iter is a FastCDCIter and stream a            *)
(* FastCDCStream: the fields of the struct (buf, processed, eof, and for   *)
(* the stream scanned and fp_hash), the position of its reader in S, and   *)
(* what its consumer has seen: out, the chunks returned so far; errs, the  *)
(* number of Err elements; ret, what the last call returned; ret_err and   *)
(* src_err, the error the last call returned and the error its reader      *)
(* raised; first_read, how the session's first completed read ended;       *)
(* polled, what the last poll of the reader in the last call answered.     *)
(* probe holds the arguments and the result of a function applied on its   *)
(* own (the constructor, one scan, one hash step); the sessions leave it   *)
(* alone.                                                                  *)
(***************************************************************************)
VARIABLES S, chunker, iter, stream, probe

vars == <<S, chunker, iter, stream, probe>>

NoProbe == [op |-> "none"]

Inputs == UNION { [1..n -> Byte] : n \in 0..MaxInput }

Chunk(fp_hash, data, offset, length) ==
    [fp_hash |-> fp_hash, data |-> data, offset |-> offset, length |-> length]

(***************************************************************************)
(* BytesMut, as the drivers use it.                                        *)
(***************************************************************************)
\* buf.resize(new_len, value), growing
Resize(buf, new_len, value) ==
    IF new_len <= Len(buf) THEN SubSeq(buf, 1, new_len)
    ELSE buf \o [i \in 1..(new_len - Len(buf)) |-> value]

\* buf.truncate(len)
Truncate(buf, len) == IF len >= Len(buf) THEN buf ELSE SubSeq(buf, 1, len)

\* the reader writes `bytes` into buf[at..]
WriteAt(buf, at, bytes) ==
    [i \in 1..Len(buf) |->
        IF i > at /\ i <= at + Len(bytes) THEN bytes[i - at] ELSE buf[i]]

\* buf.split_to(at): panics when at > buf.len()
SplitToPanics(buf, at) == at > Len(buf)

SplitTo(buf, at) ==
    [head |-> SubSeq(buf, 1, at), tail |-> SubSeq(buf, at + 1, Len(buf))]

(***************************************************************************)
(* The byte source.  A reader over S at position `reader` is asked for up  *)
(* to dst_len bytes.  What it answers in one call of the driver is the     *)
(* plan: the k-th read of the call hands over sizes[1], sizes[2],          *)
(* sizes[1], ... bytes (fewer at the end of S or of the destination, 0 at  *)
(* the end of S), except that read number `stop` ends as `kind` says:      *)
(* "err" fails with error e, "pending" is not ready.  A failed or pending  *)
(* read consumes nothing.                                                  *)
(***************************************************************************)
Sizes == (1..MaxRead) \X (1..MaxRead)

NoStop == { [sizes |-> s, stop |-> 0, kind |-> "ok", e |-> "none"] : s \in Sizes }

ErrPlans ==
    { [sizes |-> s, stop |-> k, kind |-> "err", e |-> e] :
        s \in Sizes, k \in 1..MaxStop, e \in Errors }

PendingPlans ==
    { [sizes |-> s, stop |-> k, kind |-> "pending", e |-> "none"] :
        s \in Sizes, k \in 1..MaxStop }

ReaderRead(reader, dst_len, plan, k) ==
    IF plan.stop = k
    THEN [kind |-> plan.kind, n |-> 0, e |-> plan.e]
    ELSE LET want == plan.sizes[((k - 1) % 2) + 1]
             n == Min(Min(want, Len(S) - reader), dst_len)
         IN  [kind |-> "ok", n |-> n, e |-> "none"]

\* What the consumer and the reader have seen: the reader's answer to a read
\* (first_read, src_err) and the element a call returns (first_elem).
NoteRead(d, r) ==
    [d EXCEPT !.first_read = IF @ = "none" /\ r.kind # "pending"
                             THEN (IF r.kind = "err" THEN "err" ELSE "ok") ELSE @,
              !.src_err = IF r.kind = "err" THEN r.e ELSE @,
              !.polled = r.kind]

\* A read is issued with `space` bytes of destination: empty_dst says that
\* some read of the session was issued with none.
NoteOffer(d, space) == [d EXCEPT !.empty_dst = @ \/ space = 0]

NoteElem(d, kind) == [d EXCEPT !.first_elem = IF @ = "none" THEN kind ELSE @]

(***************************************************************************)
(* core.rs: FastCDCIter                                                    *)
(***************************************************************************)
IterInit ==
    [buf |-> <<>>, processed |-> 0, eof |-> FALSE, reader |-> 0,
     out |-> <<>>, errs |-> 0, ret |-> "init", ret_err |-> "none",
     src_err |-> "none", first_read |-> "none", first_elem |-> "none",
     polled |-> "none", empty_dst |-> FALSE]

\* Ok(0) that leaves the zeroed scratch space in buf.
IterOnEof_KeepsScratch(it, buf_len) == [it EXCEPT !.eof = TRUE]

\* Ok(0) (lines 173-177): eof, drop the scratch space, leave the loop
IterOnEof(it, buf_len) ==
    [it EXCEPT !.eof = TRUE, !.buf = Truncate(@, buf_len)]

\* Ok(n) that leaves the zeroed scratch space in buf.
IterOnOk_KeepsScratch(it, buf_len, n) == it

\* Ok(n) (lines 178-180): keep the n bytes read
IterOnOk(it, buf_len, n) ==
    [it EXCEPT !.buf = Truncate(@, buf_len + n)]

\* Err(e) that also ends the session (an error-sticky driver).
IterOnErr_Sticky(it, buf_len, e) ==
    [it EXCEPT !.buf = Truncate(@, buf_len), !.ret = "err", !.ret_err = e,
               !.errs = @ + 1, !.eof = TRUE]

\* Err(e) that leaves the zeroed scratch space in buf.
IterOnErr_KeepsScratch(it, buf_len, e) ==
    [it EXCEPT !.ret = "err", !.ret_err = e, !.errs = @ + 1]

\* Err(e) (lines 181-184): drop the scratch space, return Some(Err(e))
IterOnErr(it, buf_len, e) ==
    [it EXCEPT !.buf = Truncate(@, buf_len), !.ret = "err", !.ret_err = e,
               !.errs = @ + 1]

\* A refill that reads once and goes on to scan what it has.
IterRefill_OneRead(c, it, plan, k) ==
    IF ~(~it.eof /\ Len(it.buf) < c.max_size)
    THEN [it |-> it, returned |-> FALSE]
    ELSE LET buf_len == Len(it.buf)
             needed == c.max_size - buf_len
             r == ReaderRead(it.reader, needed, plan, k)
             bytes == SubSeq(S, it.reader + 1, it.reader + r.n)
             resized == [NoteRead(NoteOffer(it, needed), r) EXCEPT
                           !.buf = WriteAt(Resize(@, buf_len + needed, 0), buf_len, bytes),
                           !.reader = @ + r.n]
         IN  IF r.kind = "err"
             THEN [it |-> IterOnErr(resized, buf_len, r.e), returned |-> TRUE]
             ELSE IF r.n = 0
             THEN [it |-> IterOnEof(resized, buf_len), returned |-> FALSE]
             ELSE [it |-> IterOnOk(resized, buf_len, r.n), returned |-> FALSE]

\* The refill loop of next (lines 166-186).  returned: the loop returned from
\* next (with an error) instead of falling through to the scan.
RECURSIVE IterRefill(_, _, _, _)
IterRefill(c, it, plan, k) ==
    IF ~(~it.eof /\ Len(it.buf) < c.max_size)
    THEN [it |-> it, returned |-> FALSE]
    ELSE LET buf_len == Len(it.buf)
             needed == c.max_size - buf_len
         IN  Once(ReaderRead(it.reader, needed, plan, k), LAMBDA r :
             LET bytes == SubSeq(S, it.reader + 1, it.reader + r.n)
                 resized == [NoteRead(NoteOffer(it, needed), r) EXCEPT
                               !.buf = WriteAt(Resize(@, buf_len + needed, 0), buf_len, bytes),
                               !.reader = @ + r.n]
             IN  IF r.kind = "err"
                 THEN [it |-> IterOnErr(resized, buf_len, r.e), returned |-> TRUE]
                 ELSE IF r.n = 0
                 THEN [it |-> IterOnEof(resized, buf_len), returned |-> FALSE]
                 ELSE Once(IterOnOk(resized, buf_len, r.n), LAMBDA filled :
                           IterRefill(c, filled, plan, k + 1)))

\* An emit whose chunk carries hash 0 and not the hash the finder returned.
IterEmit_HashZero(c, it) ==
    LET scan_len == Min(Len(it.buf), c.max_size)
        fc == FindCutpoint(SubSeq(it.buf, 1, scan_len), c.min_size, c.avg_size, c.max_size,
                           c.masks.mask_s, c.masks.mask_s_ls, c.masks.mask_l, c.masks.mask_l_ls)
        cutpoint == fc.cut
    IN  IF SplitToPanics(it.buf, cutpoint)
        THEN [it EXCEPT !.ret = "panic"]
        ELSE LET parts == SplitTo(it.buf, cutpoint)
                 chunk == Chunk(0, parts.head, it.processed, cutpoint)
             IN  [it EXCEPT !.buf = parts.tail,
                            !.processed = @ + cutpoint,
                            !.out = Append(@, chunk),
                            !.ret = "chunk"]

\* lines 192-215: scan, split and emit
IterEmit(c, it) ==
    LET scan_len == Min(Len(it.buf), c.max_size) IN
    Once(FindCutpoint(SubSeq(it.buf, 1, scan_len), c.min_size, c.avg_size, c.max_size,
                      c.masks.mask_s, c.masks.mask_s_ls, c.masks.mask_l, c.masks.mask_l_ls),
         LAMBDA fc :
    LET cutpoint == fc.cut IN
    IF SplitToPanics(it.buf, cutpoint)
    THEN [it EXCEPT !.ret = "panic"]
    ELSE LET parts == SplitTo(it.buf, cutpoint)
             chunk == Chunk(fc.hash, parts.head, it.processed, cutpoint)
         IN  [it EXCEPT !.buf = parts.tail,
                        !.processed = @ + cutpoint,
                        !.out = Append(@, chunk),
                        !.ret = "chunk"])

\* A next without the `if self.buf.is_empty()` check of lines 188-190.
IterNextCall_NoEmptyCheck(c, it0, plan) ==
    LET it == [it0 EXCEPT !.ret_err = "none", !.src_err = "none", !.polled = "none"] IN
    IF it.eof /\ it.buf = <<>>
    THEN [it EXCEPT !.ret = "end"]
    ELSE LET filled == IterRefill(c, it, plan, 1) IN
         IF filled.returned
         THEN NoteElem(filled.it, "err")
         ELSE NoteElem(IterEmit(c, filled.it), "chunk")

IterNextCall(c, it0, plan) ==
    LET it == [it0 EXCEPT !.ret_err = "none", !.src_err = "none", !.polled = "none"] IN
    IF it.eof /\ it.buf = <<>>
    THEN [it EXCEPT !.ret = "end"]
    ELSE Once(IterRefill(c, it, plan, 1), LAMBDA filled :
         IF filled.returned
         THEN NoteElem(filled.it, "err")
         ELSE IF filled.it.buf = <<>>
         THEN [filled.it EXCEPT !.ret = "end"]
         ELSE NoteElem(IterEmit(c, filled.it), "chunk"))

IterPlans(it) == NoStop \cup (IF it.errs < MaxErrors THEN ErrPlans ELSE {})

IterNext ==
    /\ iter.ret # "panic"
    /\ \E plan \in IterPlans(iter) : iter' = IterNextCall(chunker, iter, plan)
    /\ UNCHANGED <<S, chunker, stream, probe>>

(***************************************************************************)
(* stream.rs: FastCDCStream                                                *)
(***************************************************************************)
READ_RESERVE == 4096

StreamInit ==
    [buf |-> <<>>, processed |-> 0, eof |-> FALSE, scanned |-> 0, fp_hash |-> 0,
     reader |-> 0, out |-> <<>>, errs |-> 0, ret |-> "init", ret_err |-> "none",
     src_err |-> "none", first_read |-> "none", first_elem |-> "none",
     polled |-> "none", work |-> 0, empty_dst |-> FALSE]

\* What the session has cost: work counts the iterations of the hash loops
\* of cut.rs (lines 57 and 81) over all the scans of the session.
NoteWork(st, iters) == [st EXCEPT !.work = @ + iters]

\* A find_cutpoint_from that passes hash 0 instead of the caller's hash.
FindCutpointFrom_DropsHash(c, source, offset, prev_hash) ==
    FindCutpointInner(source, offset, 0, c.min_size, c.avg_size, c.max_size,
                      c.masks.mask_s, c.masks.mask_s_ls, c.masks.mask_l, c.masks.mask_l_ls)

FindCutpointFrom(c, source, offset, prev_hash) ==
    FindCutpointInner(source, offset, prev_hash, c.min_size, c.avg_size, c.max_size,
                      c.masks.mask_s, c.masks.mask_s_ls, c.masks.mask_l, c.masks.mask_l_ls)

\* A yield_chunk that does not advance `processed`.
YieldChunk_StaleOffset(st, cutpoint, fp_hash) ==
    IF SplitToPanics(st.buf, cutpoint)
    THEN [st EXCEPT !.ret = "panic"]
    ELSE LET parts == SplitTo(st.buf, cutpoint)
             chunk == Chunk(fp_hash, parts.head, st.processed, cutpoint)
         IN  [st EXCEPT !.buf = parts.tail,
                        !.scanned = 0,
                        !.fp_hash = 0,
                        !.out = Append(@, chunk),
                        !.ret = "chunk"]

\* A yield_chunk that keeps the checkpoint of the chunk it emits.
YieldChunk_KeepsCheckpoint(st, cutpoint, fp_hash) ==
    IF SplitToPanics(st.buf, cutpoint)
    THEN [st EXCEPT !.ret = "panic"]
    ELSE LET parts == SplitTo(st.buf, cutpoint)
             chunk == Chunk(fp_hash, parts.head, st.processed, cutpoint)
         IN  [st EXCEPT !.buf = parts.tail,
                        !.processed = @ + cutpoint,
                        !.out = Append(@, chunk),
                        !.ret = "chunk"]

YieldChunk(st, cutpoint, fp_hash) ==
    IF SplitToPanics(st.buf, cutpoint)
    THEN [st EXCEPT !.ret = "panic"]
    ELSE LET parts == SplitTo(st.buf, cutpoint)
             chunk == Chunk(fp_hash, parts.head, st.processed, cutpoint)
         IN  [st EXCEPT !.buf = parts.tail,
                        !.processed = @ + cutpoint,
                        !.scanned = 0,
                        !.fp_hash = 0,
                        !.out = Append(@, chunk),
                        !.ret = "chunk"]

\* A forced cut that takes the whole buffer instead of max_size bytes.
CutDecision_WholeBuffer(c, st, scan_len, found_cutpoint) ==
    IF found_cutpoint < scan_len THEN found_cutpoint
    ELSE IF Len(st.buf) >= c.max_size THEN Len(st.buf)
    ELSE IF st.eof THEN scan_len
    ELSE -1

\* A forced cut taken only when buf holds more than max_size bytes.
CutDecision_StrictMax(c, st, scan_len, found_cutpoint) ==
    IF found_cutpoint < scan_len THEN found_cutpoint
    ELSE IF Len(st.buf) > c.max_size THEN c.max_size
    ELSE IF st.eof THEN scan_len
    ELSE -1

\* A decision without the final flush at eof (lines 115-116).
CutDecision_NoFinalFlush(c, st, scan_len, found_cutpoint) ==
    IF found_cutpoint < scan_len THEN found_cutpoint
    ELSE IF Len(st.buf) >= c.max_size THEN c.max_size
    ELSE -1

\* lines 109-121: the cut to make now, or -1 for None
CutDecision(c, st, scan_len, found_cutpoint) ==
    IF found_cutpoint < scan_len THEN found_cutpoint
    ELSE IF Len(st.buf) >= c.max_size THEN c.max_size
    ELSE IF st.eof THEN scan_len
    ELSE -1

\* A checkpoint at scan_len itself, not aligned down to a byte pair.
Checkpoint_Unaligned(c, st, scan_len, new_fp_hash) ==
    [st EXCEPT !.scanned = Max(scan_len, c.min_size),
               !.fp_hash = new_fp_hash]

\* A checkpoint that is not raised to min_size.
Checkpoint_NoMinClamp(c, st, scan_len, new_fp_hash) ==
    [st EXCEPT !.scanned = (scan_len \div 2) * 2,
               !.fp_hash = new_fp_hash]

\* A checkpoint that records the offset and not the hash.
Checkpoint_DropsHash(c, st, scan_len, new_fp_hash) ==
    [st EXCEPT !.scanned = Max((scan_len \div 2) * 2, c.min_size)]

\* lines 129-131: the checkpoint recorded when no cut is made
Checkpoint(c, st, scan_len, new_fp_hash) ==
    [st EXCEPT !.scanned = Max((scan_len \div 2) * 2, c.min_size),
               !.fp_hash = new_fp_hash]

\* A read size that keeps one byte of the buffer free.
ReadSize_KeepsOneFree(c, st) ==
    Min(Max(READ_RESERVE, c.min_size),
        IF c.max_size >= Len(st.buf) + 1 THEN c.max_size - Len(st.buf) - 1 ELSE 0)

\* lines 138-140
ReadSize(c, st) ==
    Min(Max(READ_RESERVE, c.min_size),
        IF c.max_size >= Len(st.buf) THEN c.max_size - Len(st.buf) ELSE 0)

\* lines 141-146: the destination handed to the reader is the whole spare
\* capacity after reserve(read_size): at least read_size bytes, and `over`
\* more when the reservation reallocated more than it was asked for.
SpareCapacity(c, st, over) == ReadSize(c, st) + over

\* An error path that wraps every error into one fixed error.
StreamOnErr_Rewraps(st, e) ==
    [st EXCEPT !.ret = "err", !.ret_err = "e1", !.errs = @ + 1]

\* An error path that drops the buffered bytes.
StreamOnErr_DropsBuffer(st, e) ==
    [st EXCEPT !.ret = "err", !.ret_err = e, !.errs = @ + 1, !.buf = <<>>]

\* Poll::Ready(Err(e)) (line 150)
StreamOnErr(st, e) ==
    [st EXCEPT !.ret = "err", !.ret_err = e, !.errs = @ + 1]

\* Poll::Ready(Ok(())) (lines 151-162): n bytes were filled
StreamOnOk(st, n, bytes) ==
    IF n = 0
    THEN [st EXCEPT !.eof = TRUE]
    ELSE [st EXCEPT !.buf = @ \o bytes]

\* The loop of poll_next (lines 94-167); k numbers the reads of this call.
RECURSIVE PollLoop(_, _, _, _, _)
PollLoop(c, st, plan, over, k) ==
    IF st.eof /\ st.buf = <<>>
    THEN [st EXCEPT !.ret = "end"]
    ELSE LET scans == Len(st.buf) >= c.min_size \/ (st.eof /\ st.buf # <<>>)
             scan_len == Min(Len(st.buf), c.max_size)
         IN  Once(FindCutpointFrom(c, SubSeq(st.buf, 1, scan_len), st.scanned, st.fp_hash),
                  LAMBDA fc :
             LET cutpoint == CutDecision(c, st, scan_len, fc.cut) IN
             IF scans /\ cutpoint # -1
             THEN NoteElem(YieldChunk(NoteWork(st, fc.iters), cutpoint, fc.hash), "chunk")
             ELSE Once(IF scans
                       THEN Checkpoint(c, NoteWork(st, fc.iters), scan_len, fc.hash)
                       ELSE st,
                       LAMBDA st1 :
                  IF Len(st1.buf) < c.max_size /\ ~st1.eof
                  THEN Once(ReaderRead(st1.reader, SpareCapacity(c, st1, over), plan, k),
                            LAMBDA r :
                       Once([NoteRead(NoteOffer(st1, ReadSize(c, st1)), r) EXCEPT !.reader = @ + r.n],
                            LAMBDA st2 :
                       LET bytes == SubSeq(S, st1.reader + 1, st1.reader + r.n) IN
                       IF r.kind = "pending"
                       THEN [st2 EXCEPT !.ret = "pending"]
                       ELSE IF r.kind = "err"
                       THEN NoteElem(StreamOnErr(st2, r.e), "err")
                       ELSE Once(StreamOnOk(st2, r.n, bytes), LAMBDA filled :
                                 PollLoop(c, filled, plan, over, k + 1))))
                  ELSE [st1 EXCEPT !.ret = "pending_no_read"]))

\* A poll that forgets end-of-stream and polls the source again.
PollNextCall_Repolls(c, st0, plan, over) ==
    PollLoop(c, [st0 EXCEPT !.ret_err = "none", !.src_err = "none", !.polled = "none",
                            !.eof = FALSE],
             plan, over, 1)

PollNextCall(c, st0, plan, over) ==
    PollLoop(c, [st0 EXCEPT !.ret_err = "none", !.src_err = "none", !.polled = "none"],
             plan, over, 1)

StreamPlans(st) ==
    NoStop \cup PendingPlans \cup (IF st.errs < MaxErrors THEN ErrPlans ELSE {})

(***************************************************************************)
(* The two sessions share nothing but the immutable chunker and the input, *)
(* so the order of their calls does not matter: the stream's session is    *)
(* run after an iterator session over the same input that met no error has *)
(* ended (iterator sessions that meet errors are run too, on their own).   *)
(***************************************************************************)
PollNext ==
    /\ iter.ret = "end" /\ iter.errs = 0
    /\ stream.ret # "panic"
    /\ \E plan \in StreamPlans(stream), over \in 0..MaxOver :
          stream' = PollNextCall(chunker, stream, plan, over)
    /\ UNCHANGED <<S, chunker, iter, probe>>

Init ==
    /\ S \in Inputs
    /\ chunker \in Configs
    /\ iter = IterInit
    /\ stream = StreamInit
    /\ probe = NoProbe

Next == IterNext \/ PollNext

Spec == Init /\ [][Next]_vars

(***************************************************************************)
(* Sessions over a source that never fails.  The consumer keeps calling    *)
(* next and polling the stream, and the source eventually completes a      *)
(* read: a call in which no read is Pending (IterNextOk, PollNextReady)    *)
(* is taken eventually, whatever number of polls find the source Pending   *)
(* (PollNextPending) before it.                                            *)
(***************************************************************************)
IterNextOk ==
    /\ iter.ret # "panic"
    /\ \E plan \in NoStop : iter' = IterNextCall(chunker, iter, plan)
    /\ UNCHANGED <<S, chunker, stream, probe>>

PollNextReady ==
    /\ iter.ret = "end" /\ iter.errs = 0
    /\ stream.ret # "panic"
    /\ \E plan \in NoStop, over \in 0..MaxOver :
          stream' = PollNextCall(chunker, stream, plan, over)
    /\ UNCHANGED <<S, chunker, iter, probe>>

PollNextPending ==
    /\ iter.ret = "end" /\ iter.errs = 0
    /\ stream.ret # "panic"
    /\ \E plan \in PendingPlans, over \in 0..MaxOver :
          stream' = PollNextCall(chunker, stream, plan, over)
    /\ UNCHANGED <<S, chunker, iter, probe>>

NextLive == IterNextOk \/ PollNextReady \/ PollNextPending

SpecLive ==
    Init /\ [][NextLive]_vars /\ WF_vars(IterNextOk) /\ WF_vars(PollNextReady)

(***************************************************************************)
(* core.rs: the constructors, with the limits of the code (lines 10-22).   *)
(* The arguments are usize.  The value try_new returns holds the sizes and *)
(* Masks::new(avg_size, normal); Masks::new indexes the generated          *)
(* MASK_TABLE (MASK_TABLE_SIZE entries) at ilog2(avg_size) + offset and    *)
(* ilog2(avg_size) - offset, and an index outside the table panics.        *)
(***************************************************************************)
MIN_CHUNK_SIZE_MIN == 64
MIN_CHUNK_SIZE_MAX == 1048576
AVG_CHUNK_SIZE_MIN == 256
AVG_CHUNK_SIZE_MAX == 4194304
MAX_CHUNK_SIZE_MIN == 1024
MAX_CHUNK_SIZE_MAX == 16777216
MASK_TABLE_SIZE == 26
MASK_PADDING_SLOTS == 5

Normals == {"None", "Level1", "Level2", "Level3"}

\* io::Error::new(io::ErrorKind::InvalidInput, msg)
InvalidInput(msg) == [ok |-> FALSE, kind |-> "InvalidInput", msg |-> msg]

\* mask.rs, lines 37-43: the two table lookups are in range
MasksNewPanics(avg_size, normal) ==
    LET bits == ILog2(avg_size)
        offset == NormalOffset(normal)
    IN  bits + offset >= MASK_TABLE_SIZE \/ bits < offset

\* A try_new without the ordering check of lines 116-121.
TryNew_NoOrderCheck(min_size, avg_size, max_size, normal) ==
    IF ~(MIN_CHUNK_SIZE_MIN <= min_size /\ min_size <= MIN_CHUNK_SIZE_MAX)
    THEN InvalidInput("min_size must be between")
    ELSE IF ~(AVG_CHUNK_SIZE_MIN <= avg_size /\ avg_size <= AVG_CHUNK_SIZE_MAX)
    THEN InvalidInput("avg_size must be between")
    ELSE IF ~(MAX_CHUNK_SIZE_MIN <= max_size /\ max_size <= MAX_CHUNK_SIZE_MAX)
    THEN InvalidInput("max_size must be between")
    ELSE IF MasksNewPanics(avg_size, normal)
    THEN [ok |-> FALSE, kind |-> "panic", msg |-> "index out of bounds"]
    ELSE [ok |-> TRUE, kind |-> "none",
          value |-> [min_size |-> min_size, avg_size |-> avg_size,
                     max_size |-> max_size, normal |-> normal]]

\* FastCDC::try_new (lines 80-129)
TryNew(min_size, avg_size, max_size, normal) ==
    IF ~(MIN_CHUNK_SIZE_MIN <= min_size /\ min_size <= MIN_CHUNK_SIZE_MAX)
    THEN InvalidInput("min_size must be between")
    ELSE IF ~(AVG_CHUNK_SIZE_MIN <= avg_size /\ avg_size <= AVG_CHUNK_SIZE_MAX)
    THEN InvalidInput("avg_size must be between")
    ELSE IF ~(MAX_CHUNK_SIZE_MIN <= max_size /\ max_size <= MAX_CHUNK_SIZE_MAX)
    THEN InvalidInput("max_size must be between")
    ELSE IF ~(min_size < avg_size /\ avg_size < max_size)
    THEN InvalidInput("must satisfy the condition: min_size < avg_size < max_size")
    ELSE IF MasksNewPanics(avg_size, normal)
    THEN [ok |-> FALSE, kind |-> "panic", msg |-> "index out of bounds"]
    ELSE [ok |-> TRUE, kind |-> "none",
          value |-> [min_size |-> min_size, avg_size |-> avg_size,
                     max_size |-> max_size, normal |-> normal]]

\* FastCDC::new (lines 52-57)
New(min_size, avg_size, max_size, normal) ==
    LET r == TryNew(min_size, avg_size, max_size, normal) IN
    IF r.ok
    THEN [panicked |-> FALSE, value |-> r.value]
    ELSE [panicked |-> TRUE, msg |-> r.msg]

\* The arguments the constructors are called with: each limit, its two
\* neighbours, and values that are in range and out of order.
MinArgs == {0, 63, 64, 65, 256, 1024, 1048576, 1048577}
AvgArgs == {64, 255, 256, 257, 1024, 4194304, 4194305}
MaxArgs == {256, 1023, 1024, 1025, 4194304, 16777216, 16777217}

TryNewCall ==
    /\ \E min_size \in MinArgs, avg_size \in AvgArgs, max_size \in MaxArgs, normal \in Normals :
          probe' = [op |-> "try_new", min_size |-> min_size, avg_size |-> avg_size,
                    max_size |-> max_size, normal |-> normal,
                    try_new |-> TryNew(min_size, avg_size, max_size, normal),
                    new |-> New(min_size, avg_size, max_size, normal)]
    /\ UNCHANGED <<S, chunker, iter, stream>>

\* mask.rs, lines 37-43: the two indices Masks::new reads MASK_TABLE at.  The
\* subtraction is a u32 one: `underflow` says bits < offset (a panic in a
\* debug build, a wrapped index outside the table in a release build), and
\* index_l is then negative here.
MaskIndices(avg_size, normal) ==
    LET bits == ILog2(avg_size)
        offset == NormalOffset(normal)
    IN  [bits |-> bits, index_s |-> bits + offset,
         underflow |-> bits < offset,
         index_l |-> bits - offset]

\* Average sizes Masks::new is called with: the limits try_new accepts,
\* powers of two and their neighbours.
MaskAvgArgs == {256, 257, 511, 512, 1024, 65535, 65536, 4194303, 4194304}

MasksNewCall ==
    /\ \E avg_size \in MaskAvgArgs, normal \in Normals :
          probe' = [op |-> "masks_new", avg_size |-> avg_size, normal |-> normal,
                    idx |-> MaskIndices(avg_size, normal)]
    /\ UNCHANGED <<S, chunker, iter, stream>>

InitCtor ==
    /\ S = <<>>
    /\ chunker \in Configs
    /\ iter = IterInit
    /\ stream = StreamInit
    /\ probe = NoProbe

NextCtor == TryNewCall \/ MasksNewCall

SpecCtor == InitCtor /\ [][NextCtor]_vars

(***************************************************************************)
(* cut.rs on its own: scans of prefixes of S.  ScanFirst scans one prefix  *)
(* (of any length, the empty one included) from offset 0 with hash 0, with *)
(* find_cutpoint_inner and with find_cutpoint.  ScanMore is what the       *)
(* stream does when a scan of at least min_size and fewer than max_size    *)
(* bytes decided no cut: it records the checkpoint and scans a longer      *)
(* prefix from it.                                                         *)
(***************************************************************************)
ScanProbe(len, scanned, fp_hash) ==
    LET source == SubSeq(S, 1, len) IN
    [op |-> "scan", len |-> len, scanned |-> scanned, fp_hash |-> fp_hash,
     res |-> FindCutpointFrom(chunker, source, scanned, fp_hash),
     plain |-> FindCutpoint(source, chunker.min_size, chunker.avg_size, chunker.max_size,
                            chunker.masks.mask_s, chunker.masks.mask_s_ls,
                            chunker.masks.mask_l, chunker.masks.mask_l_ls)]

ScanFirst ==
    /\ probe.op = "none"
    /\ \E len \in 0..Len(S) : probe' = ScanProbe(len, 0, 0)
    /\ UNCHANGED <<S, chunker, iter, stream>>

ScanMore ==
    /\ probe.op = "scan"
    /\ probe.res.region = "none"
    /\ probe.len >= chunker.min_size /\ probe.len < chunker.max_size
    /\ \E len \in (probe.len + 1)..Len(S) :
          LET cp == Checkpoint(chunker, [scanned |-> probe.scanned, fp_hash |-> probe.fp_hash],
                               Min(probe.len, chunker.max_size), probe.res.hash)
          IN  probe' = ScanProbe(len, cp.scanned, cp.fp_hash)
    /\ UNCHANGED <<S, chunker, iter, stream>>

\* find_cutpoint_inner called on S with any offset and any hash, not only
\* with the checkpoints the stream passes; find_cutpoint on the same slice.
PrevHashes == {0, 5, Modulus - 1}

ScanAny ==
    /\ probe.op = "none"
    /\ \E offset \in 0..MaxInput, prev_hash \in PrevHashes :
          probe' = [ScanProbe(Len(S), offset, prev_hash) EXCEPT !.op = "scan_from"]
    /\ UNCHANGED <<S, chunker, iter, stream>>

InitCut ==
    /\ S \in Inputs
    /\ chunker \in Configs
    /\ iter = IterInit
    /\ stream = StreamInit
    /\ probe = NoProbe

NextCut == ScanFirst \/ ScanMore \/ ScanAny

SpecCut == InitCut /\ [][NextCut]_vars

(***************************************************************************)
(* cut.rs on its own: one iteration of the hash loop, for every hash       *)
(* value, byte pair and entry of the mask table, with the shifted mask     *)
(* Masks::new derives from the entry (mask.rs, lines 41 and 44).           *)
(***************************************************************************)
HashArgs ==
    [op : {"args"}, h : 0..(Modulus - 1), b0 : Byte, b1 : Byte,
     entry : 0..(Len(MaskTable) - 1)]

HashStep ==
    /\ probe.op = "args"
    /\ probe' = [op |-> "step", h |-> probe.h, b0 |-> probe.b0, b1 |-> probe.b1,
                 mask |-> MASK_TABLE(probe.entry),
                 mask_ls |-> Shl(MASK_TABLE(probe.entry), 1),
                 step |-> UnrolledStep(probe.h, probe.b0, probe.b1)]
    /\ UNCHANGED <<S, chunker, iter, stream>>

InitHash ==
    /\ S = <<>>
    /\ chunker \in Configs
    /\ iter = IterInit
    /\ stream = StreamInit
    /\ probe \in HashArgs

NextHash == HashStep

SpecHash == InitHash /\ [][NextHash]_vars

(***************************************************************************)
(* What the claims speak of.                                               *)
(***************************************************************************)
RECURSIVE Concat(_)
Concat(out) == IF out = <<>> THEN <<>> ELSE out[1].data \o Concat(Tail(out))

RECURSIVE SumLen(_, _)
SumLen(out, n) == IF n = 0 THEN 0 ELSE SumLen(out, n - 1) + out[n].length

IsPrefix(a, b) == Len(a) <= Len(b) /\ a = SubSeq(b, 1, Len(a))

\* The chunks a session over an error-free source emits: the driver is
\* called, with a source that never fails nor is pending, until it returns
\* end-of-sequence.
GreedyPlan == [sizes |-> <<MaxRead, MaxRead>>, stop |-> 0, kind |-> "ok", e |-> "none"]

RECURSIVE IterRun(_, _)
IterRun(c, it) ==
    IF it.ret \in {"end", "panic"} THEN it.out
    ELSE IterRun(c, IterNextCall(c, it, GreedyPlan))

RECURSIVE StreamRun(_, _)
StreamRun(c, st) ==
    IF st.ret \in {"end", "panic", "pending_no_read"} THEN st.out
    ELSE StreamRun(c, PollNextCall(c, st, GreedyPlan, 0))

(***************************************************************************)
(* C1  Reconstruction.  In a session that met no read error, the data of   *)
(* the chunks emitted so far followed by buf are the bytes read from the   *)
(* source so far, and once the driver has returned end-of-sequence the     *)
(* chunks' data concatenated are S.  For the iterator and for the stream.  *)
(***************************************************************************)
Reconstructs(d) ==
    d.errs = 0 =>
        /\ Concat(d.out) \o d.buf = SubSeq(S, 1, d.reader)
        /\ d.ret = "end" => Concat(d.out) = S

C1_Reconstruction == Reconstructs(iter) /\ Reconstructs(stream)

C1_Witness ==
    /\ iter.ret = "end" /\ Len(iter.out) >= 2
    /\ stream.ret = "end" /\ stream.errs = 0 /\ Len(stream.out) >= 2
    /\ Len(S) > chunker.max_size

(***************************************************************************)
(* C2  Offset partition.  The first chunk has offset 0, every chunk's      *)
(* offset is the sum of the lengths of the chunks before it, offsets       *)
(* strictly increase, `processed` is the sum of all emitted lengths, and   *)
(* at end-of-sequence that sum is |S|.                                     *)
(***************************************************************************)
OffsetsPartition(d) ==
    /\ \A i \in 1..Len(d.out) : d.out[i].offset = SumLen(d.out, i - 1)
    /\ \A i \in 1..(Len(d.out) - 1) :
          /\ d.out[i].offset + d.out[i].length = d.out[i + 1].offset
          /\ d.out[i].offset < d.out[i + 1].offset
    /\ d.processed = SumLen(d.out, Len(d.out))
    /\ d.ret = "end" => SumLen(d.out, Len(d.out)) = Len(S)

C2_OffsetPartition == OffsetsPartition(iter) /\ OffsetsPartition(stream)

C2_Witness ==
    /\ Len(stream.out) >= 3 /\ stream.out[3].offset > stream.out[2].offset
    /\ Len(iter.out) >= 3 /\ stream.ret = "end"

(***************************************************************************)
(* C3  Minimum chunk length.  A chunk shorter than min_size is emitted     *)
(* only as the final chunk of the stream: it ends where S ends.  Stated of *)
(* the stream, whose scan (find_cutpoint_inner) is in cut.rs; the          *)
(* iterator's scan starts at the same pair index min_size / 2.             *)
(***************************************************************************)
ShortOnlyLast(d) ==
    \A i \in 1..Len(d.out) :
        d.out[i].length < chunker.min_size =>
            d.out[i].offset + d.out[i].length = Len(S)

C3_MinLength == ShortOnlyLast(stream)

(***************************************************************************)
(* C4  Maximum chunk length and well-formed chunks.  Every emitted chunk   *)
(* has 1 <= length <= max_size and length = data.len(), and split_to never *)
(* panics: the cut never exceeds the length of buf.                        *)
(***************************************************************************)
WellFormed(d) ==
    /\ d.ret # "panic"
    /\ \A i \in 1..Len(d.out) :
          /\ 1 <= d.out[i].length
          /\ d.out[i].length <= chunker.max_size
          /\ d.out[i].length = Len(d.out[i].data)

C4_WellFormedChunks == WellFormed(iter) /\ WellFormed(stream)

\* the stream makes its forced cut with more than max_size bytes buffered
C4_Witness ==
    /\ stream.ret = "chunk"
    /\ stream.out[Len(stream.out)].length = chunker.max_size
    /\ stream.buf # <<>>
    /\ Len(iter.out) >= 1 /\ iter.out[1].length = chunker.max_size

(***************************************************************************)
(* C5  Driver equivalence.  The stream's session runs after an iterator    *)
(* session over the same input has ended: the chunks the stream has        *)
(* emitted are the first chunks the iterator emitted (offset, length, data *)
(* and fp_hash), and at the stream's end-of-sequence the two sequences are *)
(* equal.                                                                  *)
(***************************************************************************)
C5_DriverEquivalence ==
    (iter.ret = "end" /\ iter.errs = 0) =>
        /\ IsPrefix(stream.out, iter.out)
        /\ stream.ret = "end" => stream.out = iter.out

\* a chunk with a natural cut found by a resumed scan, then the end
C5_Witness ==
    /\ stream.ret = "end" /\ Len(stream.out) >= 2
    /\ \E i \in 1..Len(stream.out) :
          /\ stream.out[i].length > chunker.avg_size
          /\ stream.out[i].length < chunker.max_size
          /\ stream.out[i].offset + stream.out[i].length < Len(S)

(***************************************************************************)
(* C6  Incremental-scan equivalence.  Whatever checkpoint (scanned,        *)
(* fp_hash) the stream holds, and however many further bytes of S arrive,  *)
(* the scan of the longer prefix resumed from the checkpoint returns the   *)
(* hash and the cut of a fresh scan (offset 0, prev_hash 0) of that        *)
(* prefix.                                                                 *)
(***************************************************************************)
Longer(k) == stream.buf \o SubSeq(S, stream.reader + 1, stream.reader + k)

ScanWindow(buf) == SubSeq(buf, 1, Min(Len(buf), chunker.max_size))

C6_IncrementalScan ==
    \A k \in 0..(Len(S) - stream.reader) :
        LET resumed == FindCutpointFrom(chunker, ScanWindow(Longer(k)),
                                        stream.scanned, stream.fp_hash)
            fresh == FindCutpointFrom(chunker, ScanWindow(Longer(k)), 0, 0)
        IN  resumed.hash = fresh.hash /\ resumed.cut = fresh.cut

\* a checkpoint past min_size with a hash carried, and a longer prefix in
\* which the resumed scan finds a boundary
C6_Witness ==
    /\ stream.scanned > chunker.min_size /\ stream.fp_hash # 0
    /\ \E k \in 1..(Len(S) - stream.reader) :
          LET resumed == FindCutpointFrom(chunker, ScanWindow(Longer(k)),
                                          stream.scanned, stream.fp_hash)
          IN  /\ resumed.cut < Len(ScanWindow(Longer(k)))
              /\ resumed.cut >= stream.scanned

(***************************************************************************)
(* C7  Immediate error propagation.  A call in which a read of the source  *)
(* failed returns that error, unchanged; and when the session's first read *)
(* failed, the first element of the sequence is an error.                  *)
(***************************************************************************)
PropagatesError(d) ==
    /\ d.src_err # "none" => (d.ret = "err" /\ d.ret_err = d.src_err)
    /\ d.ret = "err" => d.src_err # "none"
    /\ d.first_read = "err" => d.first_elem = "err"

C7_ErrorPropagation == PropagatesError(iter) /\ PropagatesError(stream)

\* an error met after bytes were buffered and a chunk emitted
C7_Witness ==
    /\ stream.ret = "err" /\ stream.ret_err = "e2" /\ Len(stream.out) >= 1
    /\ stream.buf # <<>>

(***************************************************************************)
(* C8  As claimed: when the first read fails, the whole sequence is one    *)
(* element, an error, and no chunk.                                        *)
(***************************************************************************)
SingleError(d) == d.first_read = "err" => (d.errs = 1 /\ d.out = <<>>)

C8_SingleErrorElement == SingleError(iter) /\ SingleError(stream)

(***************************************************************************)
(* C8, amended.  When the first read fails, the first element of the       *)
(* sequence is an error and no chunk precedes it; the sequence goes on:    *)
(* later calls read again, and at end-of-sequence the chunks emitted after *)
(* the error are the whole of S.                                           *)
(***************************************************************************)
FirstError(d) ==
    d.first_read = "err" =>
        /\ d.first_elem = "err"
        /\ d.errs >= 1
        /\ d.ret = "end" => (d.eof /\ Concat(d.out) = S)

C8_FirstElementError == FirstError(iter) /\ FirstError(stream)

C8_Witness ==
    /\ stream.first_read = "err" /\ stream.ret = "end" /\ Len(stream.out) >= 1

(***************************************************************************)
(* C9  State preserved on a failed read.  A call that returns an error     *)
(* leaves processed and eof as they were and emits nothing, and buf        *)
(* afterwards is buf before followed by the bytes the call read before the *)
(* failure.                                                                *)
(***************************************************************************)
FailedCallFrame(d, e) ==
    e.errs = d.errs + 1 =>
        /\ e.processed = d.processed
        /\ e.eof = d.eof
        /\ e.out = d.out
        /\ e.buf = d.buf \o SubSeq(S, d.reader + 1, e.reader)

C9_FailedReadFrame ==
    [][FailedCallFrame(iter, iter') /\ FailedCallFrame(stream, stream')]_vars

\* an error after a read of the same call had added bytes to a non-empty buf
C9_Witness ==
    /\ iter.ret = "err" /\ iter.processed > 0
    /\ Len(iter.buf) >= 2 /\ Len(iter.buf) < chunker.max_size

(***************************************************************************)
(* C10  Recovery after transient errors.  In a session that met read       *)
(* errors, the chunks emitted are the first chunks of the session over an  *)
(* error-free source, and at end-of-sequence they are all of them: they    *)
(* reconstruct S with contiguous offsets.                                  *)
(***************************************************************************)
C10_Recovery ==
    /\ iter.errs > 0 =>
          /\ IsPrefix(iter.out, IterRun(chunker, IterInit))
          /\ iter.ret = "end" =>
                (iter.out = IterRun(chunker, IterInit) /\ Concat(iter.out) = S)
    /\ stream.errs > 0 =>
          /\ IsPrefix(stream.out, StreamRun(chunker, StreamInit))
          /\ stream.ret = "end" =>
                (stream.out = StreamRun(chunker, StreamInit) /\ Concat(stream.out) = S)

\* an error between two chunks, and the session ended
C10_Witness ==
    /\ stream.errs > 0 /\ stream.ret = "end" /\ stream.first_read = "ok"
    /\ Len(stream.out) >= 2
    /\ iter.ret = "end"

(***************************************************************************)
(* C11  Small input.  When 1 <= |S| <= min_size, a driver emits at most    *)
(* one chunk, that chunk is (fp_hash 0, data S, offset 0, length |S|),     *)
(* after it the driver is drained (eof, empty buf: the next call ends the  *)
(* sequence), and at end-of-sequence exactly that one chunk was emitted.   *)
(***************************************************************************)
SmallInput(d) ==
    (1 <= Len(S) /\ Len(S) <= chunker.min_size) =>
        /\ Len(d.out) <= 1
        /\ \A i \in 1..Len(d.out) : d.out[i] = Chunk(0, S, 0, Len(S))
        /\ d.out # <<>> => (d.eof /\ d.buf = <<>>)
        /\ d.ret = "end" => Len(d.out) = 1

C11_SmallInput == SmallInput(iter) /\ SmallInput(stream)

\* an input of exactly min_size bytes (odd), which the stream scanned and
\* checkpointed before end-of-stream was known
C11_Witness ==
    /\ Len(S) = chunker.min_size /\ chunker.min_size = 3
    /\ stream.ret = "end" /\ Len(stream.out) = 1 /\ stream.out[1].fp_hash = 0
    /\ iter.ret = "end" /\ Len(iter.out) = 1

(***************************************************************************)
(* C12  End of sequence.  A driver returns end-of-sequence only when the   *)
(* source has reported end-of-stream (eof, and the reader is at the end of *)
(* S) and buf is empty, so that the emitted lengths add up to the bytes    *)
(* read; for the empty input no chunk is ever emitted, and the call in     *)
(* which the first read completed returns end-of-sequence.                 *)
(***************************************************************************)
EndOnlyWhenDrained(d) ==
    /\ d.eof => d.reader = Len(S)
    /\ d.ret = "end" =>
          /\ d.eof /\ d.buf = <<>>
          /\ SumLen(d.out, Len(d.out)) = d.reader
    /\ S = <<>> =>
          /\ d.out = <<>>
          /\ d.first_read = "ok" => d.ret = "end"

C12_EndOfSequence == EndOnlyWhenDrained(iter) /\ EndOnlyWhenDrained(stream)

\* the empty input: the call that polled the reader ended the sequence
C12_Witness ==
    /\ S = <<>>
    /\ stream.ret = "end" /\ stream.polled = "ok" /\ stream.out = <<>>
    /\ iter.ret = "end" /\ iter.out = <<>>

(***************************************************************************)
(* C13  Constructor validation.  try_new returns Ok exactly when           *)
(* 64 <= min_size <= 1048576, 256 <= avg_size <= 4194304,                  *)
(* 1024 <= max_size <= 16777216 and min_size < avg_size < max_size, the Ok *)
(* value holding the arguments; otherwise it returns an InvalidInput error *)
(* and no chunker (it never panics); new panics exactly when try_new       *)
(* returns an error.                                                       *)
(***************************************************************************)
ValidArgs(p) ==
    /\ 64 <= p.min_size /\ p.min_size <= 1048576
    /\ 256 <= p.avg_size /\ p.avg_size <= 4194304
    /\ 1024 <= p.max_size /\ p.max_size <= 16777216
    /\ p.min_size < p.avg_size /\ p.avg_size < p.max_size

C13_ConstructorValidation ==
    probe.op = "try_new" =>
        /\ probe.try_new.ok <=> ValidArgs(probe)
        /\ probe.try_new.ok =>
              probe.try_new.value = [min_size |-> probe.min_size, avg_size |-> probe.avg_size,
                                     max_size |-> probe.max_size, normal |-> probe.normal]
        /\ ~probe.try_new.ok =>
              /\ probe.try_new.kind = "InvalidInput"
              /\ "value" \notin DOMAIN probe.try_new
        /\ probe.new.panicked <=> ~probe.try_new.ok
        /\ ~probe.new.panicked => probe.new.value = probe.try_new.value

\* every size within its limits, the order wrong: an error, and new panics
C13_Witness ==
    /\ probe.op = "try_new"
    /\ probe.min_size = 1024 /\ probe.avg_size = 1024 /\ probe.max_size = 4194304
    /\ ~probe.try_new.ok /\ probe.new.panicked

(***************************************************************************)
(* C14  As claimed: for every byte slice the cut of a scan from offset 0   *)
(* (find_cutpoint_inner with offset 0 and hash 0, and find_cutpoint) is    *)
(* in 1..min(len, max_size).                                               *)
(***************************************************************************)
CutInRange(p) ==
    /\ 1 <= p.res.cut /\ p.res.cut <= Min(p.len, chunker.max_size)
    /\ 1 <= p.plain.cut /\ p.plain.cut <= Min(p.len, chunker.max_size)

C14_CutRange == (probe.op = "scan" /\ probe.scanned = 0) => CutInRange(probe)

(***************************************************************************)
(* C14, amended.  For every non-empty byte slice the cut of a scan from    *)
(* offset 0 is in 1..min(len, max_size); for the empty slice it is 0.      *)
(***************************************************************************)
C14_CutRangeNonEmpty ==
    (probe.op = "scan" /\ probe.scanned = 0) =>
        /\ probe.len >= 1 => CutInRange(probe)
        /\ probe.len = 0 => (probe.res.cut = 0 /\ probe.plain.cut = 0)

\* a slice longer than max_size in which a mask test fires past avg_size
C14_Witness ==
    /\ probe.op = "scan" /\ probe.scanned = 0
    /\ probe.len > chunker.max_size
    /\ probe.res.region = "loose" /\ probe.res.cut < chunker.max_size
    /\ probe.plain.cut = probe.res.cut

(***************************************************************************)
(* C15  Forced cut at the hard maximum.  A chunk that starts where at      *)
(* least max_size bytes of S remain, none of whose mask tests fires in     *)
(* those max_size bytes, has length exactly max_size, in both drivers; and *)
(* when the stream has just emitted a chunk its checkpoint is reset        *)
(* (scanned = 0, fp_hash = 0) and buf holds the bytes read beyond the      *)
(* chunk.                                                                  *)
(***************************************************************************)
NoTestFires(offset) ==
    /\ Len(S) - offset >= chunker.max_size
    /\ FindCutpointFrom(chunker, SubSeq(S, offset + 1, offset + chunker.max_size),
                        0, 0).region = "none"

ForcedAtMax(d) ==
    \A i \in 1..Len(d.out) :
        NoTestFires(d.out[i].offset) => d.out[i].length = chunker.max_size

C15_ForcedCut ==
    /\ ForcedAtMax(iter)
    /\ ForcedAtMax(stream)
    /\ stream.ret = "chunk" =>
          /\ stream.scanned = 0 /\ stream.fp_hash = 0
          /\ stream.buf = SubSeq(S, stream.processed + 1, stream.reader)

\* a chunk forced at max_size, with a byte read beyond it left in buf
C15_Witness ==
    /\ stream.ret = "chunk" /\ Len(stream.out) = 1
    /\ NoTestFires(0)
    /\ stream.out[1].length = chunker.max_size
    /\ Len(stream.buf) = 1 /\ stream.scanned = 0
    /\ iter.out[1].length = chunker.max_size

(***************************************************************************)
(* C16  Suspension only on the source.  poll_next returns Pending only in  *)
(* a call whose last poll of the reader answered Pending; the fallback     *)
(* `return Poll::Pending` after the read branch is never taken.            *)
(***************************************************************************)
C16_PendingOnlyOnSource ==
    /\ stream.ret # "pending_no_read"
    /\ stream.ret = "pending" => stream.polled = "pending"

\* Pending after the call had scanned the buffer and recorded a checkpoint
C16_Witness ==
    /\ stream.ret = "pending" /\ stream.polled = "pending"
    /\ stream.scanned > chunker.min_size
    /\ Len(stream.out) >= 1

(***************************************************************************)
(* C17  Progress and termination.  Over a source that never fails and      *)
(* eventually completes every read, each driver eventually has emitted     *)
(* every byte of S and returned end-of-sequence; every emitted chunk takes *)
(* at least one byte from buf; and the stream never returns Pending with   *)
(* max_size or more bytes buffered.  (One poll is one evaluation of the    *)
(* loop of poll_next, which therefore ends.)                               *)
(***************************************************************************)
Drained(d) == d.ret = "end" /\ Concat(d.out) = S

AlwaysProgress ==
    /\ \A i \in 1..Len(iter.out) : iter.out[i].length >= 1
    /\ \A i \in 1..Len(stream.out) : stream.out[i].length >= 1
    /\ stream.ret \in {"pending", "pending_no_read"} =>
          Len(stream.buf) < chunker.max_size

C17_Termination == []AlwaysProgress /\ <>(Drained(iter) /\ Drained(stream))

\* a longest input drained by both drivers, the stream after Pending polls
C17_Witness ==
    /\ Len(S) = MaxInput
    /\ Drained(iter) /\ Drained(stream)
    /\ stream.polled = "ok" /\ stream.first_read = "ok"

(***************************************************************************)
(* C18  Buffer cap.  In every reachable state buf holds at most max_size   *)
(* bytes, in the iterator and in the stream, whatever number of bytes up   *)
(* to its whole destination the source fills.  A call that emits a chunk   *)
(* splits it from buf with no read in between, so the buffer it scanned    *)
(* held the chunk's bytes and the bytes left in buf.                       *)
(***************************************************************************)
BufAtSplit(d) ==
    IF d.ret = "chunk" THEN d.out[Len(d.out)].length + Len(d.buf) ELSE Len(d.buf)

C18_BufferCap ==
    /\ Len(iter.buf) <= chunker.max_size
    /\ BufAtSplit(iter) <= chunker.max_size
    /\ Len(stream.buf) <= chunker.max_size
    /\ BufAtSplit(stream) <= chunker.max_size

(***************************************************************************)
(* C19  Hash unrolling.  With arithmetic modulo 2^HashBits, one unrolled   *)
(* iteration h1 = (h << 2) + GEAR_LS[b0], h2 = h1 + GEAR[b1] is two        *)
(* standard gear steps h' = (h << 1) + GEAR[b0], h'' = (h' << 1) + GEAR[b1]*)
(* with h1 = h' << 1 and h2 = h'', and (h1 & mask_ls) = 0 exactly when     *)
(* (h' & mask) = 0, for every h, byte pair and entry of the mask table.    *)
(***************************************************************************)
GearStep(h, b) == WrappingAdd(Shl(h, 1), GEAR(b))

C19_HashUnrolling ==
    probe.op = "step" =>
        LET h1 == GearStep(probe.h, probe.b0)
            h2 == GearStep(h1, probe.b1)
        IN  /\ probe.step.h1 = Shl(h1, 1)
            /\ probe.step.h2 = h2
            /\ (BitAnd(probe.step.h1, probe.mask_ls) = 0) <=> (BitAnd(h1, probe.mask) = 0)

\* the intermediate test fires on a hash whose top bit the shift dropped
C19_Witness ==
    /\ probe.op = "step"
    /\ probe.mask # 0
    /\ BitAnd(probe.step.h1, probe.mask_ls) = 0
    /\ GearStep(probe.h, probe.b0) >= Modulus \div 2
    /\ probe.step.h2 # probe.step.h1

(***************************************************************************)
(* C20  Mask regions by byte position.  In a scan of a window of           *)
(* scan_len > min_size bytes, resumed or not, a mask test that decides a   *)
(* cut at byte position c is a strict one exactly when                     *)
(* min_size <= c < avg_size and a loose one exactly when                   *)
(* avg_size <= c < scan_len, and no position below min_size is tested.     *)
(***************************************************************************)
C20_MaskRegions ==
    (probe.op = "scan" /\ Min(probe.len, chunker.max_size) > chunker.min_size) =>
        LET scan_len == Min(probe.len, chunker.max_size)
            c == probe.res.cut
        IN  /\ probe.res.region # "none" =>
                  /\ probe.res.region = "strict" <=>
                        (chunker.min_size <= c /\ c < chunker.avg_size)
                  /\ probe.res.region = "loose" <=>
                        (chunker.avg_size <= c /\ c < scan_len)
            /\ probe.res.lo >= chunker.min_size

(***************************************************************************)
(* C21  Mask table indexing.  For every avg_size in [256, 4194304] and     *)
(* every normalization level Masks::new reads MASK_TABLE at bits + off and *)
(* bits - off only: the subtraction does not underflow, both indices are   *)
(* inside the 26-entry table, and neither is one of the padding entries    *)
(* 0..4.                                                                   *)
(***************************************************************************)
C21_MaskIndexing ==
    (/\ probe.op = "masks_new"
     /\ AVG_CHUNK_SIZE_MIN <= probe.avg_size
     /\ probe.avg_size <= AVG_CHUNK_SIZE_MAX) =>
        /\ ~probe.idx.underflow
        /\ probe.idx.index_s \in MASK_PADDING_SLOTS..(MASK_TABLE_SIZE - 1)
        /\ probe.idx.index_l \in MASK_PADDING_SLOTS..(MASK_TABLE_SIZE - 1)

\* the two extreme lookups: entry 5 and entry 25
C21_Witness ==
    /\ probe.op = "masks_new"
    /\ probe.normal = "Level3"
    /\ \/ probe.avg_size = AVG_CHUNK_SIZE_MIN /\ probe.idx.index_l = MASK_PADDING_SLOTS
       \/ probe.avg_size = AVG_CHUNK_SIZE_MAX /\ probe.idx.index_s = MASK_TABLE_SIZE - 1

(***************************************************************************)
(* C22  Checkpoint record and reset in the stream.  A call that emits a    *)
(* chunk leaves scanned = 0 and fp_hash = 0.  A call that scans scan_len   *)
(* bytes, finds no boundary with the buffer not full and eof not set, and  *)
(* whose read then is Pending, leaves scanned = max(min_size,              *)
(* (scan_len / 2) * 2), fp_hash = the hash the scan returned, and buf,     *)
(* processed and the emitted chunks as they were.  After any call that     *)
(* ends on a read that brought no bytes, scanned is that value for the     *)
(* buffer as it is.                                                        *)
(***************************************************************************)
CheckpointOf(buf) ==
    Max(chunker.min_size, (Min(Len(buf), chunker.max_size) \div 2) * 2)

C22_Step ==
    /\ stream'.ret = "chunk" => stream'.scanned = 0 /\ stream'.fp_hash = 0
    /\ (/\ stream'.ret \in {"pending", "err"}
        /\ Len(stream'.buf) >= chunker.min_size) =>
          stream'.scanned = CheckpointOf(stream'.buf)
    /\ (/\ stream'.ret = "pending"
        /\ stream'.reader = stream.reader
        /\ Len(stream.buf) >= chunker.min_size) =>
          LET scan_len == Min(Len(stream.buf), chunker.max_size)
              scan == FindCutpointFrom(chunker, SubSeq(stream.buf, 1, scan_len),
                                       stream.scanned, stream.fp_hash)
          IN  /\ stream'.scanned = CheckpointOf(stream.buf)
              /\ stream'.fp_hash = scan.hash
              /\ stream'.buf = stream.buf
              /\ stream'.processed = stream.processed
              /\ stream'.out = stream.out

C22_CheckpointRecordReset == [][C22_Step]_vars

\* a checkpoint recorded after an earlier chunk reset it: an odd number of
\* bytes scanned, the last one left for the next scan
C22_Witness ==
    /\ stream.ret = "pending"
    /\ Len(stream.out) >= 1
    /\ stream.scanned >= chunker.min_size
    /\ stream.scanned < Len(stream.buf)
    /\ stream.fp_hash # 0

(***************************************************************************)
(* C23  Checkpoint invariant of the stream.  In every reachable state      *)
(* either scanned = 0 and fp_hash = 0, or min_size <= scanned <= buf.len() *)
(* and fp_hash is the gear hash of buf scanned from scratch (hash 0, from  *)
(* pair index min_size / 2) over the byte pairs with pair index below      *)
(* scanned / 2, none of which satisfied its mask test.                     *)
(***************************************************************************)
RECURSIVE ScratchScan(_, _, _, _)
ScratchScan(buf, i, stop, h) ==
    IF i >= stop
    THEN [hash |-> h, fired |-> FALSE]
    ELSE LET h1 == GearStep(h, buf[2 * i + 1])
             h2 == GearStep(h1, buf[2 * i + 2])
             mask == IF i < chunker.avg_size \div 2
                     THEN chunker.masks.mask_s ELSE chunker.masks.mask_l
             rest == ScratchScan(buf, i + 1, stop, h2)
         IN  [hash |-> rest.hash,
              fired |-> BitAnd(h1, mask) = 0 \/ BitAnd(h2, mask) = 0 \/ rest.fired]

C23_CheckpointInvariant ==
    \/ stream.scanned = 0 /\ stream.fp_hash = 0
    \/ /\ chunker.min_size <= stream.scanned
       /\ stream.scanned <= Len(stream.buf)
       /\ LET scratch == ScratchScan(stream.buf, chunker.min_size \div 2,
                                     stream.scanned \div 2, 0)
          IN  stream.fp_hash = scratch.hash /\ ~scratch.fired

\* a checkpoint two pairs past the start of the scan, in the loose region
C23_Witness ==
    /\ stream.scanned >= chunker.min_size + 3
    /\ stream.scanned \div 2 > chunker.avg_size \div 2
    /\ stream.fp_hash # 0
    /\ stream.fp_hash = ScratchScan(stream.buf, chunker.min_size \div 2,
                                    stream.scanned \div 2, 0).hash

(***************************************************************************)
(* C24  Linear total work.  Over a stream session, however the reads are   *)
(* fragmented and however many polls are made, the hash loops run as many  *)
(* iterations as one scan from scratch of each chunk's window would (a     *)
(* resumed scan hashes no pair again, and the bytes after a cut are hashed *)
(* with the later chunks only), and at most |S| / 2 in all.                *)
(***************************************************************************)
FreshIters(source) == FindCutpointFrom(chunker, ScanWindow(source), 0, 0).iters

RECURSIVE ChunkWork(_, _)
ChunkWork(out, n) ==
    IF n = 0 THEN 0
    ELSE ChunkWork(out, n - 1)
         + FreshIters(SubSeq(S, out[n].offset + 1, Len(S)))

\* the scan of the bytes in buf, when a checkpoint says they were scanned
PendingWork == IF stream.scanned = 0 THEN 0 ELSE FreshIters(stream.buf)

C24_LinearWork ==
    /\ stream.work = ChunkWork(stream.out, Len(stream.out)) + PendingWork
    /\ 2 * stream.work <= Len(S)

\* a session that resumed a scan past its first pair and emitted chunks
C24_Witness ==
    /\ stream.ret = "pending" /\ stream.polled = "pending"
    /\ Len(stream.out) >= 1
    /\ stream.scanned > chunker.min_size + 1
    /\ stream.work >= 3

(***************************************************************************)
(* C25  Sub-minimum case of the incremental finder.  When                  *)
(* min(len, max_size) <= min_size, find_cutpoint_inner hashes nothing and  *)
(* returns (prev_hash, scan_len), whatever the offset; find_cutpoint       *)
(* returns hash 0 and the same cut.                                        *)
(***************************************************************************)
SubMinimum == Min(probe.len, chunker.max_size) <= chunker.min_size

C25_SubMinimum ==
    (probe.op = "scan_from" /\ SubMinimum) =>
        /\ probe.res.hash = probe.fp_hash
        /\ probe.res.cut = Min(probe.len, chunker.max_size)
        /\ probe.res.iters = 0
        /\ probe.plain.hash = 0
        /\ probe.plain.cut = Min(probe.len, chunker.max_size)

\* a non-empty sub-minimum slice, a resumed offset and a hash carried through
C25_Witness ==
    /\ probe.op = "scan_from" /\ SubMinimum
    /\ probe.len >= 1
    /\ probe.scanned >= chunker.min_size
    /\ probe.fp_hash # 0
    /\ probe.res.hash = probe.fp_hash
    /\ probe.plain.hash = 0

(***************************************************************************)
(* C26  Fresh-start case of the incremental finder.  When                  *)
(* offset < min_size, find_cutpoint_inner returns the (hash, cut) of       *)
(* find_cutpoint on the same slice, whatever offset and prev_hash are;     *)
(* when offset >= min_size it starts at pair index offset / 2 with hash    *)
(* prev_hash and hashes no pair below that index.                          *)
(***************************************************************************)
\* The scan of pairs i .. scan_len / 2 - 1 of source from hash h, by standard
\* gear steps: the hash and the cut the loops of cut.rs return.
RECURSIVE ResumedScan(_, _, _)
ResumedScan(source, i, h) ==
    LET scan_len == Min(Len(source), chunker.max_size) IN
    IF i >= scan_len \div 2
    THEN [hash |-> h, cut |-> scan_len]
    ELSE LET h1 == GearStep(h, source[2 * i + 1])
             h2 == GearStep(h1, source[2 * i + 2])
             mask == IF i < Min(chunker.avg_size, scan_len) \div 2
                     THEN chunker.masks.mask_s ELSE chunker.masks.mask_l
         IN  IF BitAnd(h1, mask) = 0 THEN [hash |-> Shl(h1, 1), cut |-> 2 * i]
             ELSE IF BitAnd(h2, mask) = 0 THEN [hash |-> h2, cut |-> 2 * i + 1]
             ELSE ResumedScan(source, i + 1, h2)

FreshAsPlain ==
    (probe.op = "scan_from" /\ probe.scanned < chunker.min_size) =>
        /\ probe.res.hash = probe.plain.hash
        /\ probe.res.cut = probe.plain.cut

ResumesAtOffset ==
    (probe.op = "scan_from" /\ probe.scanned >= chunker.min_size /\ ~SubMinimum) =>
        LET ref == ResumedScan(SubSeq(S, 1, probe.len), probe.scanned \div 2, probe.fp_hash)
        IN  /\ probe.res.hash = ref.hash
            /\ probe.res.cut = ref.cut
            /\ probe.res.iters > 0 => probe.res.lo = 2 * (probe.scanned \div 2)

C26_FreshStart == FreshAsPlain /\ ResumesAtOffset

\* As C26, the fresh start for windows longer than min_size: a window of at
\* most min_size bytes returns prev_hash, which find_cutpoint does not.
C26_FreshStartScanned ==
    /\ (probe.op = "scan_from" /\ probe.scanned < chunker.min_size) =>
          /\ probe.res.cut = probe.plain.cut
          /\ probe.res.hash = (IF SubMinimum THEN probe.fp_hash ELSE probe.plain.hash)
    /\ ResumesAtOffset

\* a fresh start with a hash that is dropped, deciding a cut by a mask test
C26_Witness ==
    /\ probe.op = "scan_from" /\ ~SubMinimum
    /\ probe.scanned < chunker.min_size /\ probe.scanned > 0
    /\ probe.fp_hash # 0
    /\ probe.res.region # "none"
    /\ probe.res.hash = probe.plain.hash

(***************************************************************************)
(* C27  Blocking refill.  Whenever next calls the cut-point finder, buf is *)
(* non-empty and holds max_size bytes or the source has reported           *)
(* end-of-stream; so a cut returned at scan_len is the hard maximum or the *)
(* final chunk.  The buffer the finder was called on is the emitted chunk  *)
(* followed by the bytes left in buf (BufAtSplit).                         *)
(***************************************************************************)
C27_BlockingRefill ==
    iter.ret = "chunk" =>
        LET last == iter.out[Len(iter.out)]
            scan_len == Min(BufAtSplit(iter), chunker.max_size)
        IN  /\ BufAtSplit(iter) >= 1
            /\ BufAtSplit(iter) = chunker.max_size \/ iter.eof
            /\ last.length = scan_len =>
                  \/ last.length = chunker.max_size
                  \/ iter.eof /\ iter.buf = <<>> /\ iter.processed = Len(S)

\* a full buffer gathered over several reads, scanned before end-of-stream,
\* with a boundary found inside it
C27_Witness ==
    /\ iter.ret = "chunk" /\ ~iter.eof
    /\ BufAtSplit(iter) = chunker.max_size
    /\ iter.out[Len(iter.out)].length < chunker.max_size
    /\ Len(iter.out) >= 2

(***************************************************************************)
(* C28  Blocking reference behaviour.  For a source that meets no error,   *)
(* the chunks of the iterator are those obtained by applying the cut-point *)
(* finder again and again to the first min(remaining, max_size) bytes of   *)
(* what is left of S and cutting there, each chunk with the hash of its    *)
(* call, whatever number of bytes each read returns.                       *)
(***************************************************************************)
RECURSIVE ReferenceChunks(_)
ReferenceChunks(offset) ==
    IF offset >= Len(S)
    THEN <<>>
    ELSE LET window == SubSeq(S, offset + 1, offset + Min(Len(S) - offset, chunker.max_size))
             fc == FindCutpoint(window, chunker.min_size, chunker.avg_size, chunker.max_size,
                                chunker.masks.mask_s, chunker.masks.mask_s_ls,
                                chunker.masks.mask_l, chunker.masks.mask_l_ls)
         IN  <<Chunk(fc.hash, SubSeq(window, 1, fc.cut), offset, fc.cut)>>
             \o ReferenceChunks(offset + fc.cut)

C28_BlockingReference ==
    iter.errs = 0 =>
        /\ IsPrefix(iter.out, ReferenceChunks(0))
        /\ iter.ret = "end" => iter.out = ReferenceChunks(0)

\* a finished session of three chunks or more, read in pieces of two sizes
C28_Witness ==
    /\ iter.errs = 0 /\ iter.ret = "end"
    /\ Len(iter.out) >= 3
    /\ iter.out = ReferenceChunks(0)
    /\ \E i \in 1..Len(iter.out) : iter.out[i].fp_hash # 0

(***************************************************************************)
(* C29  In-bounds reads of the finder.  For every slice, every size triple *)
(* and every offset, each index find_cutpoint_inner reads (byte_idx and    *)
(* byte_idx + 1) is below scan_len <= source.len(): the guards             *)
(* `byte_idx + 1 >= source.len()` never break a loop, and the trailing     *)
(* byte of an odd scan_len is never hashed.  The pairs a call hashes are   *)
(* consecutive, from byte position lo: the highest index read is           *)
(* lo + 2 * iters - 1.                                                     *)
(***************************************************************************)
HighestRead(res) == res.lo + 2 * res.iters - 1

C29_InBounds ==
    probe.op \in {"scan", "scan_from"} =>
        LET scan_len == Min(probe.len, chunker.max_size) IN
        /\ scan_len <= probe.len
        /\ ~probe.res.broke
        /\ probe.res.iters > 0 =>
              /\ HighestRead(probe.res) < scan_len
              /\ scan_len % 2 = 1 => HighestRead(probe.res) < scan_len - 1
        /\ (scan_len % 2 = 1 /\ probe.res.region # "none") => probe.res.cut <= scan_len - 2

\* a resumed scan of an odd window that hashes up to the last whole pair and
\* decides no cut
C29_Witness ==
    /\ probe.op = "scan" /\ probe.scanned >= chunker.min_size
    /\ probe.len % 2 = 1 /\ probe.len <= chunker.max_size
    /\ probe.res.iters > 0
    /\ HighestRead(probe.res) = probe.len - 2
    /\ probe.res.cut = probe.len

(***************************************************************************)
(* C30  No spurious end-of-stream.  Every read a driver issues offers the  *)
(* source at least one byte of destination (the iterator                   *)
(* max_size - buf.len(), the stream the read_size it reserves), so a       *)
(* completed read of 0 bytes, which sets eof, comes only from a source     *)
(* that has no byte left.                                                  *)
(***************************************************************************)
C30_NoSpuriousEof ==
    /\ ~iter.empty_dst
    /\ ~stream.empty_dst
    /\ iter.eof => iter.reader = Len(S)
    /\ stream.eof => stream.reader = Len(S)

\* the stream has just issued a read with one byte of room, and the iterator
\* has met the end of the same input
C30_Witness ==
    /\ stream.ret = "pending" /\ stream.polled = "pending"
    /\ Len(stream.buf) = chunker.max_size - 1
    /\ ~stream.empty_dst /\ ~stream.eof
    /\ iter.eof /\ iter.reader = Len(S)

(***************************************************************************)
(* C31  End-of-stream is sticky.  Once a driver has set eof, a later call  *)
(* issues no read: while bytes are buffered it emits a chunk taken from    *)
(* buf, and with buf empty it returns end-of-sequence, on that call and on *)
(* every later one, leaving buf, processed, eof and the emitted chunks as  *)
(* they are.  End-of-sequence is returned only with eof set and buf empty. *)
(* before is the driver when the call is made, after when it returns.      *)
(***************************************************************************)
EofSticky(before, after) ==
    /\ after.ret = "end" => after.eof /\ after.buf = <<>>
    /\ (before.eof /\ after # before) =>
          /\ after.eof
          /\ after.polled = "none"
          /\ after.reader = before.reader
          /\ after.errs = before.errs
          /\ IF before.buf = <<>>
             THEN /\ after.ret = "end"
                  /\ after.buf = before.buf
                  /\ after.processed = before.processed
                  /\ after.out = before.out
             ELSE /\ after.ret = "chunk"
                  /\ Len(after.out) = Len(before.out) + 1
                  /\ after.out[Len(after.out)].data \o after.buf = before.buf
                  /\ after.processed = before.processed + after.out[Len(after.out)].length

C31_Step == EofSticky(iter, iter') /\ EofSticky(stream, stream')

C31_EofSticky == [][C31_Step]_vars

\* both drivers have answered end-of-sequence on a call that made no read,
\* after emitting their buffered bytes in two chunks or more
C31_Witness ==
    /\ iter.eof /\ iter.ret = "end" /\ iter.polled = "none"
    /\ stream.eof /\ stream.ret = "end" /\ stream.polled = "none"
    /\ Len(iter.out) >= 2 /\ Len(stream.out) >= 2
    /\ stream.buf = <<>> /\ stream.processed = Len(S)

=============================================================================
